---- MODULE Spec2Model ----
(***************************************************************************)
(* Model of plugins/modules/proxmox_snap_info.py: one invocation of main() *)
(* (and a second one in immediate succession), with the Proxmox helper     *)
(* class and the wall clock as the environment.                            *)
(*                                                                         *)
(* Strings are sequences of one-character strings, so that startswith is   *)
(* computed.  An optional value is [some, v]; None is the value with       *)
(* some = FALSE.  Time is counted in ticks, TicksPerSecond to the second;  *)
(* time.time() returns clock / TicksPerSecond and snaptime is in seconds.  *)
(***************************************************************************)
EXTENDS Integers, Sequences, FiniteSets, TLC

VARIABLES
    HAS_PROXMOX_SNAP,  \* the import-time flag, lines 85-95
    params,            \* module.params: vmid, hostname, snapname, timeout, older_than
    source,            \* the snapshot list the cluster holds for the instance
    clock,             \* the wall clock, in ticks
    pc,                \* position of the invocation in main()
    run,               \* "first" or "second" invocation
    proxmox,           \* the helper built at line 99 (the module it was given)
    vmid,              \* local vmid of get_proxmox_snapshotlist
    snapshotlist,      \* local snapshotlist
    idx,               \* number of records the loop of line 144 has gone through
    oldsnapshotlist,   \* local oldsnapshotlist
    evalTimes,         \* the clock at the moment each record was evaluated
    calls,             \* the calls made to the helper in this invocation
    out,               \* what the invocation reported (exit_json / fail_json / raised)
    first              \* results and evalTimes of the first invocation

vars == <<HAS_PROXMOX_SNAP, params, source, clock, pc, run, proxmox, vmid,
          snapshotlist, idx, oldsnapshotlist, evalTimes, calls, out, first>>

----------------------------------------------------------------------------
(* Bounds *)

MaxSnaps == 2
MaxDays == 1
TicksPerSecond == 2

(* Program constants *)

SecondsPerMinute == 60
MinutesPerHour == 60
HoursPerDay == 24
DefaultTimeout == 30
DefaultOlderThan == 0

SecondsPerDay == SecondsPerMinute * MinutesPerHour * HoursPerDay

----------------------------------------------------------------------------
(* Values *)

None == [some |-> FALSE, v |-> <<>>]
Some(x) == [some |-> TRUE, v |-> x]

\* Python truth value of None, a string or a list
Truthy(o) == o.some /\ o.v # <<>>

CURRENT == <<"c", "u", "r", "r", "e", "n", "t">>

SnapNames == {CURRENT, <<"a">>, <<"b", "a">>}
Prefixes ==
    {None, Some(<<>>), Some(<<"a">>), Some(<<"b">>), Some(<<"c">>), Some(<<"a", "b">>)}

\* the one instance of the cluster, as the helper sees it
InstanceName == <<"v", "m">>
InstanceId == <<"1", "0", "0">>

Hostnames == {None, Some(<<>>), Some(InstanceName), Some(<<"x">>)}
Vmids == {None, Some(<<>>), Some(InstanceId)}
Timeouts == {DefaultTimeout, DefaultTimeout + 1}
OlderThans == DefaultOlderThan .. MaxDays

\* the second at which the first invocation starts
StartSecond == (MaxDays + 1) * SecondsPerDay

SnapTimes == {StartSecond - k * SecondsPerDay : k \in 0 .. MaxDays}
Records == [name : SnapNames, snaptime : SnapTimes]

SeqsUpTo(S, n) == UNION {[1 .. k -> S] : k \in 0 .. n}

ScenarioA ==
    << [name |-> CURRENT, snaptime |-> StartSecond],
       [name |-> <<"a">>, snaptime |-> StartSecond - MaxDays * SecondsPerDay],
       [name |-> <<"b", "a">>, snaptime |-> StartSecond] >>

MsgVmid == "Vmid could not be fetched"
MsgSnapshots == "Snapshots could not be fetched"
MsgMissingLib == "missing_required_lib(proxmox_snap)"

NoOutcome ==
    [kind |-> "none", keys |-> {}, changed |-> FALSE, msg |-> "",
     results |-> <<>>, exception |-> ""]

----------------------------------------------------------------------------
(* The module's own code *)

\* s.endswith(p)
EndsWith(s, p) == Len(p) <= Len(s) /\ SubSeq(s, Len(s) - Len(p) + 1, Len(s)) = p

\* s.startswith(p)
StartsWith(s, p) == Len(p) <= Len(s) /\ SubSeq(s, 1, Len(p)) = p

\* a quotient num / den kept exact; Python 3 division (from __future__ import division)
Rat(n, d) == [num |-> n, den |-> d]
RatDiv(r, k) == [num |-> r.num, den |-> r.den * k]
RatGreater(r, k) == r.num > k * r.den

\* time.time() - s["snaptime"], with time.time() = now ticks
Age(now, s) == Rat(now - s.snaptime * TicksPerSecond, TicksPerSecond)

\* the comparison of line 150 made inclusive
OlderThanInclusive(now, s, older_than) ==
    LET r == RatDiv(RatDiv(RatDiv(Age(now, s), SecondsPerMinute), MinutesPerHour),
                    HoursPerDay)
    IN r.num >= older_than * r.den

\* the clock of line 150 truncated to whole seconds
OlderThanWholeSeconds(now, s, older_than) ==
    LET secs == (now \div TicksPerSecond) - s.snaptime
    IN RatGreater(RatDiv(RatDiv(RatDiv(Rat(secs, 1), SecondsPerMinute), MinutesPerHour),
                         HoursPerDay),
                  older_than)

\* line 150 comparing with timeout instead of older_than
OlderThanUsesTimeout(now, s, older_than) ==
    RatGreater(RatDiv(RatDiv(RatDiv(Age(now, s), SecondsPerMinute), MinutesPerHour),
                      HoursPerDay),
               params.timeout)

\* ((time.time() - s["snaptime"]) / 60 / 60 / 24) > older_than
OlderThan(now, s, older_than) ==
    RatGreater(RatDiv(RatDiv(RatDiv(Age(now, s), SecondsPerMinute), MinutesPerHour),
                      HoursPerDay),
               older_than)

\* the loop body without the test of line 145
LoopBodyKeepsCurrent(acc, s, now, snapname, older_than) ==
    IF Truthy(snapname) /\ ~StartsWith(s.name, snapname.v) THEN acc
    ELSE IF OlderThan(now, s, older_than) THEN Append(acc, s.name)
    ELSE acc

\* the loop body inserting at the front
LoopBodyPrepends(acc, s, now, snapname, older_than) ==
    IF s.name = CURRENT THEN acc
    ELSE IF Truthy(snapname) /\ ~StartsWith(s.name, snapname.v) THEN acc
    ELSE IF OlderThan(now, s, older_than) THEN <<s.name>> \o acc
    ELSE acc

\* the body of the loop of line 144, run on record s with accumulator acc
LoopBody(acc, s, now, snapname, older_than) ==
    IF s.name = CURRENT THEN acc
    ELSE IF Truthy(snapname) /\ ~StartsWith(s.name, snapname.v) THEN acc
    ELSE IF OlderThan(now, s, older_than) THEN Append(acc, s.name)
    ELSE acc

\* module.exit_json(changed=False, msg=...)
SoftExit(m) ==
    [kind |-> "exit_json", keys |-> {"changed", "msg"}, changed |-> FALSE,
     msg |-> m, results |-> <<>>, exception |-> ""]

\* the final report with changed set when there are results
ResultExitChanged(names) ==
    [kind |-> "exit_json", keys |-> {"changed", "results"}, changed |-> names # <<>>,
     msg |-> "", results |-> names, exception |-> ""]

\* module.exit_json(**snapshotdict)
ResultExit(names) ==
    [kind |-> "exit_json", keys |-> {"changed", "results"}, changed |-> FALSE,
     msg |-> "", results |-> names, exception |-> ""]

\* module.fail_json(msg=missing_required_lib('proxmox_snap'), exception=...)
MissingLibFail ==
    [kind |-> "fail_json", keys |-> {"msg", "exception"}, changed |-> FALSE,
     msg |-> MsgMissingLib, results |-> <<>>, exception |-> "PROXMOX_SNAP_IMPORT_ERROR"]

\* an exception of the helper, which main() does not catch
Raised ==
    [kind |-> "raised", keys |-> {}, changed |-> FALSE, msg |-> "",
     results |-> <<>>, exception |-> "transport"]

----------------------------------------------------------------------------
(* The helper class (ProxmoxSnapAnsible), outside this file *)

\* the timeout the helper's transport works with: the one of the module it was built from
TransportTimeout(helper) == helper.v.timeout

Call(op, arg) == [op |-> op, arg |-> arg, timeout |-> TransportTimeout(proxmox)]

\* proxmox.get_vmid(hostname): the id of the instance of that name, or nothing
GetVmid(hostname) == IF hostname = Some(InstanceName) THEN Some(InstanceId) ELSE None

\* proxmox.snapshot(vm, vmid).get(): the snapshots of the instance, or nothing
SnapshotGet(id) == IF id = Some(InstanceId) THEN source ELSE None

----------------------------------------------------------------------------
(* Initial states *)

Fresh ==
    /\ pc = "check"
    /\ proxmox = None
    /\ vmid = None
    /\ snapshotlist = None
    /\ idx = 0
    /\ oldsnapshotlist = <<>>
    /\ evalTimes = <<>>
    /\ calls = <<>>
    /\ out = NoOutcome

\* every identifier input, two filter settings, the sources of at most one record
\* and the three-record scenario
Init ==
    /\ HAS_PROXMOX_SNAP \in BOOLEAN
    /\ params \in [vmid : Vmids, hostname : Hostnames,
                   snapname : {None, Some(<<"a">>)},
                   timeout : Timeouts, older_than : OlderThans]
    /\ source \in {None, Some(ScenarioA)} \cup {Some(l) : l \in SeqsUpTo(Records, 1)}
    /\ clock = StartSecond * TicksPerSecond - 1
    /\ run = "first"
    /\ first = None
    /\ Fresh

\* every filter setting, every source of at most MaxSnaps records and the
\* three-record scenario, for the instance named by hostname
InitFilter ==
    /\ HAS_PROXMOX_SNAP \in BOOLEAN
    /\ params \in [vmid : {None}, hostname : {Some(InstanceName)},
                   snapname : Prefixes,
                   timeout : {DefaultTimeout}, older_than : OlderThans]
    /\ source \in {None, Some(ScenarioA)} \cup {Some(l) : l \in SeqsUpTo(Records, MaxSnaps)}
    /\ clock = StartSecond * TicksPerSecond - 1
    /\ run = "first"
    /\ first = None
    /\ Fresh

----------------------------------------------------------------------------
(* Actions *)

\* main() without the test of line 129
CheckDependencySkipped ==
    /\ pc = "check"
    /\ pc' = "construct"
    /\ UNCHANGED <<HAS_PROXMOX_SNAP, params, source, clock, run, proxmox, vmid,
                   snapshotlist, idx, oldsnapshotlist, evalTimes, calls, out, first>>

\* lines 129-139
CheckDependency ==
    /\ pc = "check"
    /\ IF ~HAS_PROXMOX_SNAP
       THEN /\ out' = MissingLibFail
            /\ pc' = "done"
       ELSE /\ out' = out
            /\ pc' = "construct"
    /\ UNCHANGED <<HAS_PROXMOX_SNAP, params, source, clock, run, proxmox, vmid,
                   snapshotlist, idx, oldsnapshotlist, evalTimes, calls, first>>

\* line 141 (the call) and line 99
Construct ==
    /\ pc = "construct"
    /\ proxmox' = Some(params)
    /\ vmid' = params.vmid
    /\ calls' = Append(calls, [op |-> "ProxmoxSnapAnsible", arg |-> None,
                               timeout |-> params.timeout])
    /\ pc' = "resolve"
    /\ UNCHANGED <<HAS_PROXMOX_SNAP, params, source, clock, run,
                   snapshotlist, idx, oldsnapshotlist, evalTimes, out, first>>

\* lines 100-103
Resolve ==
    /\ pc = "resolve"
    /\ IF ~Truthy(vmid) /\ Truthy(params.hostname)
       THEN /\ calls' = Append(calls, Call("get_vmid", params.hostname))
            /\ \/ /\ vmid' = GetVmid(params.hostname)
                  /\ pc' = "get_vm"
                  /\ out' = out
               \/ /\ vmid' = vmid
                  /\ pc' = "done"
                  /\ out' = Raised
       ELSE IF ~Truthy(vmid)
       THEN /\ out' = SoftExit(MsgVmid)
            /\ pc' = "done"
            /\ UNCHANGED <<vmid, calls>>
       ELSE /\ pc' = "get_vm"
            /\ UNCHANGED <<vmid, calls, out>>
    /\ UNCHANGED <<HAS_PROXMOX_SNAP, params, source, clock, run, proxmox,
                   snapshotlist, idx, oldsnapshotlist, evalTimes, first>>

\* line 105
GetVm ==
    /\ pc = "get_vm"
    /\ calls' = Append(calls, Call("get_vm", vmid))
    /\ \/ /\ pc' = "fetch"
          /\ out' = out
       \/ /\ pc' = "done"
          /\ out' = Raised
    /\ UNCHANGED <<HAS_PROXMOX_SNAP, params, source, clock, run, proxmox, vmid,
                   snapshotlist, idx, oldsnapshotlist, evalTimes, first>>

\* the fetch without the test of line 107
FetchUnchecked ==
    /\ pc = "fetch"
    /\ calls' = Append(calls, Call("snapshot", vmid))
    /\ \/ /\ snapshotlist' = SnapshotGet(vmid)
          /\ out' = out
          /\ pc' = "loop"
       \/ /\ snapshotlist' = snapshotlist
          /\ pc' = "done"
          /\ out' = Raised
    /\ oldsnapshotlist' = <<>>
    /\ UNCHANGED <<HAS_PROXMOX_SNAP, params, source, clock, run, proxmox, vmid,
                   idx, evalTimes, first>>

\* lines 106-110 and 142
Fetch ==
    /\ pc = "fetch"
    /\ calls' = Append(calls, Call("snapshot", vmid))
    /\ \/ /\ snapshotlist' = SnapshotGet(vmid)
          /\ IF ~Truthy(snapshotlist')
             THEN /\ out' = SoftExit(MsgSnapshots)
                  /\ pc' = "done"
             ELSE /\ out' = out
                  /\ pc' = "loop"
       \/ /\ snapshotlist' = snapshotlist
          /\ pc' = "done"
          /\ out' = Raised
    /\ oldsnapshotlist' = <<>>
    /\ UNCHANGED <<HAS_PROXMOX_SNAP, params, source, clock, run, proxmox, vmid,
                   idx, evalTimes, first>>

\* lines 144-151, one record; the clock may have moved on since the last record
LoopStep ==
    /\ pc = "loop"
    /\ idx < Len(snapshotlist.v)
    /\ clock' \in {clock, clock + 1}
    /\ idx' = idx + 1
    /\ evalTimes' = Append(evalTimes, clock')
    /\ oldsnapshotlist' = LoopBody(oldsnapshotlist, snapshotlist.v[idx'], clock',
                                   params.snapname, params.older_than)
    /\ UNCHANGED <<HAS_PROXMOX_SNAP, params, source, pc, run, proxmox, vmid,
                   snapshotlist, calls, out, first>>

\* lines 153-158
Exit ==
    /\ pc = "loop"
    /\ idx = Len(snapshotlist.v)
    /\ out' = ResultExit(oldsnapshotlist)
    /\ pc' = "done"
    /\ UNCHANGED <<HAS_PROXMOX_SNAP, params, source, clock, run, proxmox, vmid,
                   snapshotlist, idx, oldsnapshotlist, evalTimes, calls, first>>

\* the same invocation once more, in immediate succession: same parameters, same source
Reinvoke ==
    /\ pc = "done"
    /\ run = "first"
    /\ out.kind = "exit_json"
    /\ "results" \in out.keys
    /\ run' = "second"
    /\ first' = Some([results |-> out.results, evalTimes |-> evalTimes])
    /\ pc' = "check"
    /\ proxmox' = None
    /\ vmid' = None
    /\ snapshotlist' = None
    /\ idx' = 0
    /\ oldsnapshotlist' = <<>>
    /\ evalTimes' = <<>>
    /\ calls' = <<>>
    /\ out' = NoOutcome
    /\ UNCHANGED <<HAS_PROXMOX_SNAP, params, source, clock>>

Next ==
    \/ CheckDependency
    \/ Construct
    \/ Resolve
    \/ GetVm
    \/ Fetch
    \/ LoopStep
    \/ Exit

NextTwice ==
    \/ Next
    \/ Reinvoke

Spec == Init /\ [][Next]_vars

SpecFilter == InitFilter /\ [][NextTwice]_vars

----------------------------------------------------------------------------
(* What the specification says of one record and of a list of records *)

\* the age of record s at clock reading t, in ticks, and older_than days in ticks
AgeTicks(s, t) == t - s.snaptime * TicksPerSecond
DaysTicks(d) == d * SecondsPerDay * TicksPerSecond

\* p is an initial segment of name
BeginsWith(name, p) == \E k \in 0 .. Len(name) : p = [i \in 1 .. k |-> name[i]]

PassesPrefix(s) == Truthy(params.snapname) => BeginsWith(s.name, params.snapname.v)

Qualifies(s, t) ==
    /\ s.name # CURRENT
    /\ PassesPrefix(s)
    /\ AgeTicks(s, t) > DaysTicks(params.older_than)

RECURSIVE Expected(_, _)
Expected(l, ts) ==
    IF l = <<>> THEN <<>>
    ELSE IF Qualifies(Head(l), Head(ts))
         THEN <<Head(l).name>> \o Expected(Tail(l), Tail(ts))
         ELSE Expected(Tail(l), Tail(ts))

Reported == pc = "done" /\ out.kind = "exit_json" /\ "results" \in out.keys

CallOps == {calls[i].op : i \in DOMAIN calls}

----------------------------------------------------------------------------
(* Claims *)

\* C1: the name "current" never appears in the results, neither in the list being
\* built nor in the list reported, whatever snapname and older_than are.
C1_CurrentNeverListed ==
    /\ \A i \in DOMAIN oldsnapshotlist : oldsnapshotlist[i] # CURRENT
    /\ \A i \in DOMAIN out.results : out.results[i] # CURRENT

\* a "current" record that passes both filters has been gone through and left out
C1_Witness ==
    /\ Reported
    /\ out.results # <<>>
    /\ \E i \in DOMAIN snapshotlist.v :
          /\ snapshotlist.v[i].name = CURRENT
          /\ PassesPrefix(snapshotlist.v[i])
          /\ AgeTicks(snapshotlist.v[i], evalTimes[i]) > DaysTicks(params.older_than)

C3_PrefixFilter ==
    Truthy(params.snapname) =>
        /\ \A i \in DOMAIN oldsnapshotlist :
              BeginsWith(oldsnapshotlist[i], params.snapname.v)
        /\ \A i \in DOMAIN out.results : BeginsWith(out.results[i], params.snapname.v)

\* a record old enough, not "current", whose name ends with but does not start with
\* snapname was gone through, and another record was listed
C3_Witness ==
    /\ Reported
    /\ Truthy(params.snapname)
    /\ out.results # <<>>
    /\ \E i \in DOMAIN snapshotlist.v :
          /\ snapshotlist.v[i].name # CURRENT
          /\ ~BeginsWith(snapshotlist.v[i].name, params.snapname.v)
          /\ AgeTicks(snapshotlist.v[i], evalTimes[i]) > DaysTicks(params.older_than)

\* C4: with no vmid, once the identifier is left unresolved (no hostname, or
\* get_vmid yielded nothing) the invocation has stopped with the soft "Vmid could
\* not be fetched" outcome and has made no get_vm or snapshot call.
C4_UnresolvedStopsSoftly ==
    (/\ pc \in {"get_vm", "fetch", "loop", "done"}
     /\ HAS_PROXMOX_SNAP
     /\ out.kind # "raised"
     /\ ~Truthy(params.vmid)
     /\ ~Truthy(vmid))
    => /\ pc = "done"
       /\ out = SoftExit(MsgVmid)
       /\ CallOps \cap {"get_vm", "snapshot"} = {}

C6_MissingDependencyFirst ==
    ~HAS_PROXMOX_SNAP =>
        /\ calls = <<>>
        /\ proxmox = None
        /\ pc \in {"check", "done"}
        /\ pc = "done" => /\ out = MissingLibFail
                          /\ "exception" \in out.keys

C6_Witness == ~HAS_PROXMOX_SNAP /\ pc = "done" /\ out.kind = "fail_json"

\* C7: every exit_json outcome carries changed = false, and no outcome carries
\* changed = true.
C7_NeverChanged ==
    /\ out.kind = "exit_json" => ("changed" \in out.keys /\ out.changed = FALSE)
    /\ ~("changed" \in out.keys /\ out.changed = TRUE)

\* a normal result with names in it
C7_Witness == Reported /\ out.results # <<>> /\ out.changed = FALSE

\* C8 as stated: the second invocation, with the same parameters and the same
\* source, reports the results of the first.
C8_Idempotent == (run = "second" /\ Reported) => out.results = first.v.results

\* every record's age test came out the same in both invocations
SameSide ==
    \A i \in DOMAIN snapshotlist.v :
        (AgeTicks(snapshotlist.v[i], first.v.evalTimes[i]) > DaysTicks(params.older_than))
        <=> (AgeTicks(snapshotlist.v[i], evalTimes[i]) > DaysTicks(params.older_than))

\* C8 as amended: the second invocation reports the results of the first provided
\* no record's age crossed older_than days between its two evaluations.
C8_IdempotentSameSide ==
    (run = "second" /\ Reported /\ SameSide) => out.results = first.v.results

\* both invocations listed a name, with the clock having moved in between
C8_Witness ==
    /\ run = "second"
    /\ Reported
    /\ SameSide
    /\ out.results # <<>>
    /\ evalTimes # first.v.evalTimes

\* C9: the results are the names of the qualifying records of the fetched list, in
\* the order of the source, once per occurrence: while the loop runs for the part
\* gone through, and in the report for the whole list.
C9_ResultsAreFilteredSource ==
    /\ pc = "loop" =>
          /\ snapshotlist = source
          /\ oldsnapshotlist = Expected(SubSeq(snapshotlist.v, 1, idx), evalTimes)
    /\ Reported =>
          /\ snapshotlist = source
          /\ out.results = Expected(source.v, evalTimes)

\* two different names were listed, in the order of the source
C9_Witness ==
    /\ Reported
    /\ Len(out.results) = 2
    /\ out.results[1] # out.results[2]
    /\ Len(source.v) > 2

\* what the invocation reports, from everything but timeout
ExpectedOutcome ==
    IF ~HAS_PROXMOX_SNAP THEN MissingLibFail
    ELSE IF ~Truthy(params.vmid) /\ ~Truthy(params.hostname) THEN SoftExit(MsgVmid)
    ELSE LET id == IF Truthy(params.vmid) THEN params.vmid ELSE GetVmid(params.hostname)
             l == SnapshotGet(id)
         IN IF ~Truthy(l) THEN SoftExit(MsgSnapshots)
            ELSE ResultExit(Expected(l.v, evalTimes))

====
